---- MODULE Spec2Model ----
(***************************************************************************)
(* coinone.py: one run of the scheduled auto-buy script.  The run loads    *)
(* its configuration from the environment, and either places one market    *)
(* buy order on the exchange and reports it to a Discord webhook, or sends *)
(* the "disabled" notice.  The exchange and the webhook are the            *)
(* environment: every reply they can give is an input of the action that   *)
(* issues the request.                                                     *)
(*                                                                         *)
(* Text (str) is a sequence of one-character strings wherever the code     *)
(* transforms it (strip, lower, float, int); floats are exact decimals     *)
(* [num, den].  json.dumps, base64.b64encode  *)
(* and hmac.new(...).hexdigest() are injective constructors <<tag, ...>>.  *)
(* uuid.uuid4() returns a value never returned before (the library's       *)
(* contract): the n-th call of the run returns <<"uuid4", n>>.             *)
(***************************************************************************)
EXTENDS Integers, Sequences, FiniteSets, TLC

VARIABLES
    environ,        \* os.environ["IS_ACTIVE"]: [set, value]
    IS_ACTIVE,      \* module global, line 57
    pc,             \* position of the run
    uuids,          \* number of uuid.uuid4() calls made so far
    events,         \* what the process did to the outside: requests, sleeps
    reply,          \* the reply to the last request
    current_price,  \* place_buy_order local (a float)
    buy_response,   \* place_buy_order local
    order_info,     \* place_buy_order local
    order_report,   \* value of get_order_result_report(...)
    balances,       \* get_balance_info: the entries reduce() has still to fold
    report,         \* get_balance_info: the accumulator of reduce()
    message,        \* argument of send_discord_message
    exc,            \* the exception that ended the run, or "none"
    stdout,         \* what print / pprint wrote
    heap,           \* signer harness: payload mappings a caller holds
    encoded         \* signer harness: what get_encoded_payload returned, in order

vars == <<environ, IS_ACTIVE, pc, uuids, events, reply, current_price,
          buy_response, order_info, order_report, balances, report, message,
          exc, stdout, heap, encoded>>

runVars == <<environ, IS_ACTIVE, pc, events, reply, current_price,
             buy_response, order_info, order_report, balances, report,
             message, exc, stdout>>

(* ------------------------------ bounds -------------------------------- *)

MaxAsks == 2       \* ask levels in a ticker reply
MaxBalances == 2   \* entries in a balance reply
MaxPayloads == 2   \* signer harness: payload mappings alive
MaxSignings == 3   \* signer harness: calls of get_encoded_payload

(* ------------------------------- text --------------------------------- *)

Whitespace == {" ", "\t", "\n"}

UpperLetters == <<"A", "E", "F", "L", "N", "O", "R", "S", "T", "U", "Y">>
LowerLetters == <<"a", "e", "f", "l", "n", "o", "r", "s", "t", "u", "y">>

SetMin(S) == CHOOSE x \in S : \A y \in S : x <= y
SetMax(S) == CHOOSE x \in S : \A y \in S : x >= y

\* str.lower(), one character
LowerChar(c) ==
    IF \E i \in 1..Len(UpperLetters) : UpperLetters[i] = c
    THEN LowerLetters[CHOOSE i \in 1..Len(UpperLetters) : UpperLetters[i] = c]
    ELSE c

\* str.upper(), one character (used to build inputs only)
UpperChar(c) ==
    IF \E i \in 1..Len(LowerLetters) : LowerLetters[i] = c
    THEN UpperLetters[CHOOSE i \in 1..Len(LowerLetters) : LowerLetters[i] = c]
    ELSE c

Lower(s) == [i \in 1..Len(s) |-> LowerChar(s[i])]
Upper(s) == [i \in 1..Len(s) |-> UpperChar(s[i])]
Capitalize(s) == [i \in 1..Len(s) |-> IF i = 1 THEN UpperChar(s[i]) ELSE s[i]]

\* str.strip(): drop leading and trailing whitespace
Strip(s) ==
    LET keep == {i \in 1..Len(s) : s[i] \notin Whitespace}
    IN  IF keep = {} THEN <<>> ELSE SubSeq(s, SetMin(keep), SetMax(keep))

Digits == <<"0", "1", "2", "3", "4", "5", "6", "7", "8", "9">>
IsDigit(c) == \E i \in 1..10 : Digits[i] = c
DigitVal(c) == (CHOOSE i \in 1..10 : Digits[i] = c) - 1

RECURSIVE DecimalVal(_)
DecimalVal(s) ==
    IF s = <<>> THEN 0
    ELSE 10 * DecimalVal(SubSeq(s, 1, Len(s) - 1)) + DigitVal(s[Len(s)])

IsIntText(s) == Len(s) > 0 /\ \A i \in 1..Len(s) : IsDigit(s[i])

\* int(text): the value, for the texts int() accepts (else ValueError)
IntOfText(s) == DecimalVal(s)

\* float(text), in hundredths; texts are digits with at most one "." followed
\* by at most two digits
DotAt(s) == {i \in 1..Len(s) : s[i] = "."}
IsFloatText(s) ==
    \/ IsIntText(s)
    \/ /\ Cardinality(DotAt(s)) = 1
       /\ LET d == CHOOSE i \in DotAt(s) : TRUE
          IN  /\ IsIntText(SubSeq(s, 1, d - 1))
              /\ IsIntText(SubSeq(s, d + 1, Len(s)))
              /\ Len(s) - d <= 2
FloatOfText(s) ==
    IF DotAt(s) = {} THEN 100 * DecimalVal(s)
    ELSE LET d == CHOOSE i \in DotAt(s) : TRUE
             frac == SubSeq(s, d + 1, Len(s))
         IN  100 * DecimalVal(SubSeq(s, 1, d - 1))
             + (IF Len(frac) = 1 THEN 10 * DecimalVal(frac) ELSE DecimalVal(frac))

(* --------------------------- configuration ---------------------------- *)

ACCESS_TOKEN == "access-token"
SECRET_KEY == "secret-key"
DISCORD_WEBHOOK_URL == "https://discord/webhook"
AMOUNT == "10000"
CURRENCY_BUY == "BTC"
CURRENCY_HOLD == "KRW"

\* os.getenv("IS_ACTIVE", "FALSE")
GetenvIsActive(env) ==
    IF env.set THEN env.value ELSE <<"F", "A", "L", "S", "E">>

TruthyTexts == {<<"t", "r", "u", "e">>, <<"1">>, <<"y", "e", "s">>}

IsActiveNoStrip(text) == Lower(text) \in TruthyTexts
\* line 57
IsActiveValue(text) == Lower(Strip(text)) \in TruthyTexts

\* the values of the variable the model tries
EnvWords ==
    TruthyTexts \cup
    { <<"f", "a", "l", "s", "e">>, <<"0">>, <<"n", "o">>, <<"o", "n">>, <<>>,
      <<"y">>, <<"t", "r", " ", "u", "e">>, <<"1", "1">> }
EnvCased == UNION {{w, Upper(w), Capitalize(w)} : w \in EnvWords}
Pads == {<<>>, <<" ">>}
EnvValues ==
    {l \o w \o r : l \in Pads, w \in EnvCased, r \in Pads}
    \cup {<<"\t", "Y", "e", "s", "\n">>, <<"\n", "1", "\t">>, <<"\t">>,
          <<" ", " ", "t", "r", "u", "e", "\t", "\n">>}
Environs ==
    {[set |-> TRUE, value |-> v] : v \in EnvValues}
    \cup {[set |-> FALSE, value |-> <<>>]}

(* ------------------------------ signing ------------------------------- *)

Uuid4(n) == <<"uuid4", n + 1>>

\* dict update: d[k] = v
DictSet(d, k, v) == [x \in DOMAIN d \cup {k} |-> IF x = k THEN v ELSE d[x]]
HasKey(d, k) == k \in DOMAIN d

JsonDumps(v) == <<"json", v>>
B64Encode(v) == <<"b64", v>>
HmacSha512Hex(key, msg) == <<"hmac-sha512", key, msg>>

\* a bug: the nonce is only set when the mapping has none
GetEncodedPayloadKeepNonce(payload, n) ==
    LET p == IF HasKey(payload, "nonce") THEN payload
             ELSE DictSet(payload, "nonce", Uuid4(n))
    IN  [payload |-> p, encoded_json |-> B64Encode(JsonDumps(p))]

\* lines 60-65; payload: the mapping as the call leaves it
GetEncodedPayload(payload, n) ==
    LET p == DictSet(payload, "nonce", Uuid4(n))
    IN  [payload |-> p, encoded_json |-> B64Encode(JsonDumps(p))]

\* lines 68-70
GetSignature(encoded_payload) == HmacSha512Hex(SECRET_KEY, encoded_payload)

\* a bug: the JSON text is signed, not its base64 encoding
SignedHeadersOfJson(encoded_payload, method) ==
    ("Content-type" :> "application/json")
    @@ ("X-COINONE-PAYLOAD" :> encoded_payload)
    @@ ("X-COINONE-SIGNATURE" :> GetSignature(encoded_payload[2]))

\* a variant: GET requests go out without the signing headers
SignedHeadersPostOnly(encoded_payload, method) ==
    IF method = "GET"
    THEN ("Content-type" :> "application/json")
    ELSE ("Content-type" :> "application/json")
         @@ ("X-COINONE-PAYLOAD" :> encoded_payload)
         @@ ("X-COINONE-SIGNATURE" :> GetSignature(encoded_payload))

\* lines 78-82: the headers do not depend on the method
SignedHeaders(encoded_payload, method) ==
    ("Content-type" :> "application/json")
    @@ ("X-COINONE-PAYLOAD" :> encoded_payload)
    @@ ("X-COINONE-SIGNATURE" :> GetSignature(encoded_payload))

\* lines 74-87: what http.request sends (url, method, headers; no body)
ExchangeRequest(action, payload, method, n) ==
    [kind |-> "exchange",
     url |-> <<"https://api.coinone.co.kr", action>>,
     method |-> method,
     headers |-> SignedHeaders(GetEncodedPayload(payload, n).encoded_json, method)]

\* a bug: the except clause swallows the error and returns an empty mapping
GetResponseSwallow(rep) ==
    IF rep.kind = "json"
    THEN [raised |-> FALSE, exc |-> "none", value |-> rep.body, printed |-> <<>>]
    ELSE [raised |-> FALSE, exc |-> "none", value |-> <<>>,
          printed |-> <<"Exception occurred">>]

\* lines 86-91: the reply parsed, or the error printed and raised again
GetResponse(rep) ==
    IF rep.kind = "json"
    THEN [raised |-> FALSE, exc |-> "none", value |-> rep.body, printed |-> <<>>]
    ELSE [raised |-> TRUE,
          exc |-> IF rep.kind = "error" THEN "ServerNotFoundError"
                  ELSE "JSONDecodeError",
          value |-> <<>>,
          printed |-> <<"Exception occurred">>]

(* ------------------------------ floats -------------------------------- *)

\* a float is an exact decimal [num, den]
Float(text) == [num |-> FloatOfText(text), den |-> 100]
FloatMul(x, y) == [num |-> x.num * y.num, den |-> x.den * y.den]
FloatInt(x) == x.num \div x.den
FloatLess(x, y) == x.num * y.den < y.num * x.den

(* ------------------------ the exchange's replies ---------------------- *)

TransportError == [kind |-> "error"]
NotJson == [kind |-> "text"]
Json(body) == [kind |-> "json", body |-> body]
ErrorBody == [result |-> "error", error_code |-> "107"]

PriceTexts == {<<"9">>, <<"1", "0", ".", "5">>}
Asks == {[price |-> t, qty |-> <<"1">>] : t \in PriceTexts}
AskLists == UNION {[1..n -> Asks] : n \in 0..MaxAsks}
TickerBodies ==
    {[result |-> "success", tickers |-> <<[best_asks |-> a]>>] : a \in AskLists}
    \cup {[result |-> "success", tickers |-> <<>>], ErrorBody}
TickerReplies == {TransportError, NotJson} \cup {Json(b) : b \in TickerBodies}
\* the replies tried for the tickers the balance report asks for: one ask level
ValuationTickerReplies ==
    {r \in TickerReplies :
        r.kind = "json" /\ HasKey(r.body, "tickers") /\ Len(r.body.tickers) = 1
            => Len(r.body.tickers[1].best_asks) = 1}

ExchangeOrderIds == {"order-1", "order-2"}
BuyBodies ==
    {[result |-> "success", error_code |-> "0", order_id |-> i] :
        i \in ExchangeOrderIds}
    \cup {[result |-> "success", error_code |-> "0"],
          ErrorBody,
          [message |-> "bad gateway"]}
BuyReplies == {TransportError, NotJson} \cup {Json(b) : b \in BuyBodies}

OrderStatuses == {"LIVE", "PARTIALLY_FILLED", "FILLED"}
Orders ==
    {[order_id |-> i, status |-> s, average_executed_price |-> p,
      executed_qty |-> <<"0", ".", "0", "1">>, traded_amount |-> <<"9", "0">>,
      fee |-> <<"0", ".", "1">>, ordered_at |-> 86400000] :
        i \in ExchangeOrderIds, s \in OrderStatuses,
        p \in {<<"9">>, <<"1", "0", ".", "5">>}}
DetailBodies == {[result |-> "success", order |-> o] : o \in Orders} \cup {ErrorBody}
DetailReplies == {TransportError, NotJson} \cup {Json(b) : b \in DetailBodies}

BalanceEntries ==
    {[currency |-> c, available |-> <<"2">>, average_price |-> <<"9">>] :
        c \in {CURRENCY_HOLD, CURRENCY_BUY}}
BalanceLists == UNION {[1..n -> BalanceEntries] : n \in 0..MaxBalances}
BalanceBodies ==
    {[result |-> "success", balances |-> l] : l \in BalanceLists} \cup {ErrorBody}
BalanceReplies == {TransportError, NotJson} \cup {Json(b) : b \in BalanceBodies}

WebhookReplies ==
    {TransportError} \cup {[kind |-> "http", status |-> s] : s \in {204, 200, 429}}

(* ------------------------------ messages ------------------------------ *)

\* lines 229-232
DisabledNotice == [template |-> "disabled"]
\* line 221: the text embeds the submission reply as received
FailMsg(response) == [template |-> "failed", reason |-> response]
\* lines 213-218
SuccessMsg(order_text, balance_text) ==
    [template |-> "accepted", order |-> order_text, balances |-> balance_text]

\* lines 169-175
WebhookRequest(msg) ==
    [kind |-> "webhook",
     url |-> DISCORD_WEBHOOK_URL,
     method |-> "POST",
     headers |-> ("Content-Type" :> "application/json"),
     body |-> JsonDumps([content |-> msg])]

\* line 207
SleepEvent == [kind |-> "sleep", seconds |-> 1]

(* ------------------------------- steps -------------------------------- *)

None == "None"

Raise(e) == pc' = "raised" /\ exc' = e

\* a bug: the cheapest ask is looked for
BestAskMin(best_asks) ==
    CHOOSE a \in {best_asks[i] : i \in 1..Len(best_asks)} :
        \A i \in 1..Len(best_asks) :
            ~FloatLess(Float(best_asks[i].price), Float(a.price))

\* line 165: ["best_asks"][0]
BestAsk(best_asks) == best_asks[1]

\* line 165: price["tickers"][0]["best_asks"][0]["price"]
TickerPrice(price) ==
    IF ~HasKey(price, "tickers") THEN [exc |-> "KeyError", value |-> <<>>]
    ELSE IF Len(price.tickers) = 0 THEN [exc |-> "IndexError", value |-> <<>>]
    ELSE IF Len(price.tickers[1].best_asks) = 0
         THEN [exc |-> "IndexError", value |-> <<>>]
    ELSE [exc |-> "none", value |-> BestAsk(price.tickers[1].best_asks).price]

\* lines 157-165, and float() of the result: the request, and what comes back
GetCurrentPriceCall(target, n, rep) ==
    LET r == GetResponse(rep)
        p == TickerPrice(r.value)
    IN  [request |->
            ExchangeRequest(<<"/public/v2/ticker_new", CURRENCY_HOLD, target>>,
                            <<>>, "GET", n),
         printed |-> r.printed,
         exc |-> IF r.raised THEN r.exc
                 ELSE IF p.exc # "none" THEN p.exc
                 ELSE IF ~IsFloatText(p.value) THEN "ValueError"
                 ELSE "none",
         value |-> IF ~r.raised /\ p.exc = "none" /\ IsFloatText(p.value)
                   THEN Float(p.value) ELSE Float(<<"0">>)]

\* the literal 1.03 of line 205
Slippage == [num |-> 103, den |-> 100]

\* line 205: current_price * 1.03
LimitPrice(price) == FloatMul(price, Slippage)

\* lines 126-138
BuyPayload(amount, limit_price, target, order_id) ==
    [access_token |-> ACCESS_TOKEN,
     quote_currency |-> CURRENCY_HOLD,
     target_currency |-> target,
     type |-> "MARKET",
     side |-> "BUY",
     amount |-> amount,
     limit_price |-> limit_price,
     user_order_id |-> order_id]

\* lines 144-152
OrderInfoPayload(order_id, target) ==
    [access_token |-> ACCESS_TOKEN,
     order_id |-> order_id,
     quote_currency |-> CURRENCY_HOLD,
     target_currency |-> target]

\* lines 95-98
BalancePayload(currencies) ==
    [access_token |-> ACCESS_TOKEN, currencies |-> currencies]

\* a bug: the result is tested for truth, and every non-empty text is true
ResultIsSuccessTruthy(response) == response.result # ""
\* line 208
ResultIsSuccess(response) == response.result = "success"

\* a bug: an order that is not filled yet is asked for again
AfterOrderInfoPoll(info) ==
    IF HasKey(info, "order") /\ info.order.status # "FILLED"
    THEN "get_order_info" ELSE "get_order_result_report"
\* lines 209-215: one query, then the report, whatever the status
AfterOrderInfo(info) == "get_order_result_report"

\* lines 183-192
GetOrderResultReport(order, currency) ==
    [order_id |-> order.order_id,
     ordered_at |-> <<"fromtimestamp", order.ordered_at \div 1000>>,
     average_executed_price |-> IntOfText(order.average_executed_price),
     executed_qty |-> order.executed_qty,
     currency |-> currency,
     traded_amount |-> Float(order.traded_amount),
     status |-> order.status,
     fee |-> Float(order.fee)]

\* lines 108-114: one block of the balance report
FormatBalance(acc, curr, price) ==
    Append(acc,
           [currency |-> curr.currency,
            available |-> Float(curr.available),
            average_price |-> Float(curr.average_price),
            value |-> FloatInt(FloatMul(Float(curr.available), price))])

\* line 118
BalanceReport(blocks) == <<"header">> \o blocks

\* a bug: a status other than 204 is raised
AfterWebhookStrict(rep, here) ==
    IF rep.kind = "error" \/ rep.status # 204 THEN "raised" ELSE "exit"
\* a bug: a message the webhook did not take with 204 is sent again
AfterWebhookResend(rep, here) ==
    IF rep.kind = "error" THEN "raised"
    ELSE IF rep.status # 204 THEN here ELSE "exit"
\* lines 172-180: only an exception of the transport is raised
AfterWebhook(rep, here) == IF rep.kind = "error" THEN "raised" ELSE "exit"

(* ------------------------------ the run -------------------------------- *)

Init ==
    /\ environ \in Environs
    /\ IS_ACTIVE = FALSE
    /\ pc = "import"
    /\ uuids = 0
    /\ events = <<>>
    /\ reply = None
    /\ current_price = None
    /\ buy_response = None
    /\ order_info = None
    /\ order_report = None
    /\ balances = <<>>
    /\ report = <<>>
    /\ message = None
    /\ exc = "none"
    /\ stdout = <<>>
    /\ heap = <<>>
    /\ encoded = <<>>

\* lines 56-57
LoadConfig ==
    /\ pc = "import"
    /\ IS_ACTIVE' = IsActiveValue(GetenvIsActive(environ))
    /\ pc' = "main"
    /\ UNCHANGED <<environ, uuids, events, reply, current_price, buy_response,
                   order_info, order_report, balances, report, message, exc,
                   stdout, heap, encoded>>

\* lines 225-233
Main ==
    /\ pc = "main"
    /\ IF IS_ACTIVE
       THEN pc' = "place_buy_order" /\ UNCHANGED message
       ELSE pc' = "send_discord_message" /\ message' = DisabledNotice
    /\ UNCHANGED <<environ, IS_ACTIVE, uuids, events, reply, current_price,
                   buy_response, order_info, order_report, balances, report,
                   exc, stdout, heap, encoded>>

\* line 199: current_price = float(get_current_price(currency))
FetchPrice ==
    /\ pc = "place_buy_order"
    /\ \E rep \in TickerReplies :
        LET c == GetCurrentPriceCall(CURRENCY_BUY, uuids, rep)
        IN  /\ events' = Append(events, c.request)
            /\ uuids' = uuids + 1
            /\ reply' = rep
            /\ stdout' = stdout \o c.printed
            /\ IF c.exc # "none"
               THEN Raise(c.exc) /\ UNCHANGED current_price
               ELSE pc' = "buy" /\ current_price' = c.value /\ UNCHANGED exc
    /\ UNCHANGED <<environ, IS_ACTIVE, buy_response, order_info, order_report,
                   balances, report, message, heap, encoded>>

\* line 205, lines 122-140
Buy ==
    /\ pc = "buy"
    /\ \E rep \in BuyReplies :
        LET order_id == Uuid4(uuids)
            r == GetResponse(rep)
        IN  /\ events' = Append(events,
                    ExchangeRequest(<<"/v2.1/order">>,
                        BuyPayload(AMOUNT, LimitPrice(current_price),
                                   CURRENCY_BUY, order_id),
                        "POST", uuids + 1))
            /\ uuids' = uuids + 2
            /\ reply' = rep
            /\ stdout' = stdout \o r.printed
            /\ IF r.raised
               THEN Raise(r.exc) /\ UNCHANGED buy_response
               ELSE pc' = "sleep" /\ buy_response' = r.value /\ UNCHANGED exc
    /\ UNCHANGED <<environ, IS_ACTIVE, current_price, order_info, order_report,
                   balances, report, message, heap, encoded>>

\* lines 207-208, 220-221: the settle delay, then the branch on the result
Settle ==
    /\ pc = "sleep"
    /\ events' = Append(events, SleepEvent)
    /\ IF ~HasKey(buy_response, "result")
       THEN Raise("KeyError") /\ UNCHANGED message
       ELSE IF ResultIsSuccess(buy_response)
       THEN pc' = "get_order_info" /\ UNCHANGED <<message, exc>>
       ELSE /\ pc' = "send_discord_message"
            /\ message' = FailMsg(buy_response)
            /\ UNCHANGED exc
    /\ UNCHANGED <<environ, IS_ACTIVE, uuids, reply, current_price,
                   buy_response, order_info, order_report, balances, report,
                   stdout, heap, encoded>>

\* lines 209-211, 143-154
GetOrderInfo ==
    /\ pc = "get_order_info"
    /\ IF ~HasKey(buy_response, "order_id")
       THEN /\ Raise("KeyError")
            /\ UNCHANGED <<events, uuids, reply, stdout, order_info>>
       ELSE \E rep \in DetailReplies :
            LET r == GetResponse(rep)
            IN  /\ events' = Append(events,
                        ExchangeRequest(<<"/v2.1/order/detail">>,
                            OrderInfoPayload(buy_response.order_id, CURRENCY_BUY),
                            "POST", uuids))
                /\ uuids' = uuids + 1
                /\ reply' = rep
                /\ IF r.raised
                   THEN /\ Raise(r.exc)
                        /\ stdout' = stdout \o r.printed
                        /\ UNCHANGED order_info
                   ELSE /\ pc' = AfterOrderInfo(r.value)
                        /\ order_info' = r.value
                        /\ stdout' = Append(stdout, <<"pprint", r.value>>)
                        /\ UNCHANGED exc
    /\ UNCHANGED <<environ, IS_ACTIVE, current_price, buy_response,
                   order_report, balances, report, message, heap, encoded>>

\* line 215: get_order_result_report(order_info["order"], currency)
OrderResultReport ==
    /\ pc = "get_order_result_report"
    /\ IF ~HasKey(order_info, "order")
       THEN Raise("KeyError") /\ UNCHANGED order_report
       ELSE IF ~IsIntText(order_info.order.average_executed_price)
       THEN Raise("ValueError") /\ UNCHANGED order_report
       ELSE /\ order_report' = GetOrderResultReport(order_info.order, CURRENCY_BUY)
            /\ pc' = "get_balance_info"
            /\ UNCHANGED exc
    /\ UNCHANGED <<environ, IS_ACTIVE, uuids, events, reply, current_price,
                   buy_response, order_info, balances, report, message,
                   stdout, heap, encoded>>

\* the reduce() of line 116 is over: lines 118-119, then line 213
Reported(blocks) ==
    /\ message' = SuccessMsg(order_report, BalanceReport(blocks))
    /\ pc' = "send_discord_message"

\* line 217, lines 103-105, 94-100
GetBalanceInfo ==
    /\ pc = "get_balance_info"
    /\ \E rep \in BalanceReplies :
        LET r == GetResponse(rep)
        IN  /\ events' = Append(events,
                    ExchangeRequest(<<"/v2.1/account/balance">>,
                        BalancePayload(<<CURRENCY_HOLD, CURRENCY_BUY>>),
                        "POST", uuids))
            /\ uuids' = uuids + 1
            /\ reply' = rep
            /\ stdout' = stdout \o r.printed
            /\ report' = <<>>
            /\ IF r.raised
               THEN Raise(r.exc) /\ UNCHANGED <<balances, message>>
               ELSE IF ~HasKey(r.value, "balances")
               THEN Raise("KeyError") /\ UNCHANGED <<balances, message>>
               ELSE /\ balances' = r.value.balances
                    /\ UNCHANGED exc
                    /\ IF r.value.balances = <<>>
                       THEN Reported(<<>>)
                       ELSE pc' = "format_balance" /\ UNCHANGED message
    /\ UNCHANGED <<environ, IS_ACTIVE, current_price, buy_response, order_info,
                   order_report, heap, encoded>>

\* lines 107-116: reduce() folds one entry, which fetches that currency's price
FoldBalance ==
    /\ pc = "format_balance"
    /\ \E rep \in ValuationTickerReplies :
        LET curr == Head(balances)
            c == GetCurrentPriceCall(curr.currency, uuids, rep)
            acc == FormatBalance(report, curr, c.value)
        IN  /\ events' = Append(events, c.request)
            /\ uuids' = uuids + 1
            /\ reply' = rep
            /\ stdout' = stdout \o c.printed
            /\ IF c.exc # "none"
               THEN Raise(c.exc) /\ UNCHANGED <<balances, report, message>>
               ELSE /\ balances' = Tail(balances)
                    /\ report' = acc
                    /\ UNCHANGED exc
                    /\ IF Tail(balances) = <<>>
                       THEN Reported(acc)
                       ELSE pc' = "format_balance" /\ UNCHANGED message
    /\ UNCHANGED <<environ, IS_ACTIVE, current_price, buy_response, order_info,
                   order_report, heap, encoded>>

\* lines 168-180
SendDiscordMessage ==
    /\ pc = "send_discord_message"
    /\ \E rep \in WebhookReplies :
        /\ events' = Append(events, WebhookRequest(message))
        /\ reply' = rep
        /\ pc' = AfterWebhook(rep, "send_discord_message")
        /\ exc' = IF AfterWebhook(rep, "send_discord_message") = "raised"
                  THEN (IF rep.kind = "error" THEN "ServerNotFoundError"
                        ELSE "RuntimeError")
                  ELSE exc
        /\ stdout' = IF rep.kind = "error"
                     THEN Append(stdout, "Exception occurred")
                     ELSE IF rep.status # 204
                     THEN Append(stdout, "Failed to send message to Discord")
                     ELSE stdout
    /\ UNCHANGED <<environ, IS_ACTIVE, uuids, current_price, buy_response,
                   order_info, order_report, balances, report, message,
                   heap, encoded>>

Next ==
    \/ LoadConfig
    \/ Main
    \/ FetchPrice
    \/ Buy
    \/ Settle
    \/ GetOrderInfo
    \/ OrderResultReport
    \/ GetBalanceInfo
    \/ FoldBalance
    \/ SendDiscordMessage

Spec == Init /\ [][Next]_vars

(* ------------------- get_encoded_payload on its own -------------------- *)

\* the mappings the callers build (lines 97, 128-137, 146-151, 160), and one
\* that carries a nonce of an earlier run
SamplePayloads ==
    { <<>>,
      BalancePayload(<<CURRENCY_HOLD, CURRENCY_BUY>>),
      OrderInfoPayload("order-1", CURRENCY_BUY),
      [access_token |-> ACCESS_TOKEN, nonce |-> <<"uuid4", 0>>] }

InitSigner ==
    /\ environ = [set |-> FALSE, value |-> <<>>]
    /\ IS_ACTIVE = FALSE
    /\ pc = "get_encoded_payload"
    /\ uuids = 0
    /\ events = <<>>
    /\ reply = None
    /\ current_price = None
    /\ buy_response = None
    /\ order_info = None
    /\ order_report = None
    /\ balances = <<>>
    /\ report = <<>>
    /\ message = None
    /\ exc = "none"
    /\ stdout = <<>>
    /\ heap = <<>>
    /\ encoded = <<>>

\* a caller builds a payload mapping
NewPayload ==
    /\ Len(heap) < MaxPayloads
    /\ \E p \in SamplePayloads : heap' = Append(heap, p)
    /\ UNCHANGED <<runVars, uuids, encoded>>

\* lines 60-65: a caller passes one of its mappings, which the call mutates
SignPayload ==
    /\ Len(encoded) < MaxSignings
    /\ \E i \in 1..Len(heap) :
        LET r == GetEncodedPayload(heap[i], uuids)
        IN  /\ heap' = [heap EXCEPT ![i] = r.payload]
            /\ encoded' = Append(encoded, r.encoded_json)
            /\ uuids' = uuids + 1
    /\ UNCHANGED runVars

NextSigner == NewPayload \/ SignPayload

SpecSigner == InitSigner /\ [][NextSigner]_vars

(* ------------------------------ properties ----------------------------- *)

Last(s) == s[Len(s)]
Indices(kind) == {i \in 1..Len(events) : events[i].kind = kind}
\* what the X-COINONE-PAYLOAD header of a request decodes to
PayloadOf(req) == req.headers["X-COINONE-PAYLOAD"][2][2]
Calls(action) ==
    {i \in Indices("exchange") : events[i].url[2][1] = action}
Webhooks == Indices("webhook")
ContentOf(req) == req.body[2].content

\* the value is "true", "1" or "yes" in any case, with whitespace around it
Truthy(env) ==
    /\ env.set
    /\ \E a \in 0..Len(env.value), b \in 0..Len(env.value) :
        /\ a <= b
        /\ \A i \in 1..a : env.value[i] \in Whitespace
        /\ \A i \in (b + 1)..Len(env.value) : env.value[i] \in Whitespace
        /\ \E w \in TruthyTexts :
            /\ Len(w) = b - a
            /\ \A i \in 1..Len(w) :
                env.value[a + i] \in {w[i], UpperChar(w[i])}

\* C1: a truthy IS_ACTIVE runs the order path, which starts with the price
\* fetch and never sends the disabled notice; every other value, and the
\* variable unset, makes no exchange call and sends the disabled notice only.
ActiveFlagSelectsPath ==
    pc \notin {"import", "main"} =>
        IF Truthy(environ)
        THEN /\ pc = "place_buy_order" \/ (Len(events) >= 1 /\ 1 \in Calls("/public/v2/ticker_new"))
             /\ \A i \in Webhooks : ContentOf(events[i]) # DisabledNotice
        ELSE /\ Indices("exchange") = {} /\ Indices("sleep") = {}
             /\ \A i \in Webhooks : ContentOf(events[i]) = DisabledNotice
             /\ Len(events) <= 1
             /\ pc \in {"send_discord_message", "exit", "raised"}
             /\ pc \in {"exit", "raised"} => Len(events) = 1

ActiveFlagWitness ==
    /\ environ.set
    /\ environ.value = <<" ", "T", "R", "U", "E", " ">>
    /\ Calls("/v2.1/order") # {}
    /\ pc = "exit"

InactiveFlagWitness ==
    /\ environ.set
    /\ environ.value = <<"O", "N">>
    /\ pc = "exit"
    /\ Len(events) = 1

\* the submission was answered with a mapping that has a result, and the
\* settle delay is over
Submitted == Indices("sleep") # {} /\ HasKey(buy_response, "result")

\* C2: after a submission answered "success" the only message sent is the
\* success report, with the order id of the order detail; after any other
\* result the only message sent is the failure report with the submission
\* reply in it, it is sent, and neither order detail nor balance is called.
ReportFollowsResult ==
    Submitted =>
        /\ Cardinality(Webhooks) <= 1
        /\ IF buy_response.result = "success"
           THEN /\ \A i \in Webhooks :
                    /\ ContentOf(events[i]).template = "accepted"
                    /\ ContentOf(events[i]).order.order_id
                            = order_info.order.order_id
                    /\ Calls("/v2.1/order/detail") # {}
                /\ pc = "exit" => Webhooks # {}
           ELSE /\ \A i \in Webhooks :
                    ContentOf(events[i]) = FailMsg(buy_response)
                /\ Calls("/v2.1/order/detail") = {}
                /\ Calls("/v2.1/account/balance") = {}
                /\ pc \in {"send_discord_message", "exit", "raised"}
                /\ pc \in {"exit", "raised"} => Webhooks # {}

SuccessReportWitness ==
    /\ pc = "exit"
    /\ Submitted
    /\ buy_response.result = "success"
    /\ buy_response.order_id = "order-1"
    /\ order_info.order.order_id = "order-2"
    /\ \E i \in Webhooks : ContentOf(events[i]).order.order_id = "order-2"

FailureReportWitness ==
    /\ pc = "exit"
    /\ Submitted
    /\ \E i \in Webhooks : ContentOf(events[i]) = FailMsg(ErrorBody)

\* C3: a webhook answer other than 204 is printed and nothing else: the run
\* ends normally, without an exception, with the message sent once.
Non204IsOnlyLogged ==
    (/\ Len(events) > 0
     /\ Last(events).kind = "webhook"
     /\ reply.kind = "http"
     /\ reply.status # 204) =>
        /\ pc = "exit"
        /\ exc = "none"
        /\ Cardinality(Webhooks) = 1
        /\ Last(stdout) = "Failed to send message to Discord"

Non204Witness ==
    /\ pc = "exit"
    /\ Len(events) > 0
    /\ Last(events).kind = "webhook"
    /\ reply.kind = "http"
    /\ reply.status = 429
    /\ ContentOf(Last(events)).template = "accepted"

\* C4: an exchange call that fails in the transport or answers no JSON ends
\* the run with that error, printed: the failing request is the last thing
\* the run did (no retry, no later step), and no webhook message was sent.
ExchangeFailureIsFatal ==
    (/\ Len(events) > 0
     /\ Last(events).kind = "exchange"
     /\ reply.kind \in {"error", "text"}) =>
        /\ pc = "raised"
        /\ exc = (IF reply.kind = "error" THEN "ServerNotFoundError"
                  ELSE "JSONDecodeError")
        /\ Webhooks = {}
        /\ Len(stdout) > 0 /\ Last(stdout) = "Exception occurred"
        /\ (Len(events) = 1 => Calls("/v2.1/order") = {})

PriceFetchFailureWitness ==
    /\ pc = "raised"
    /\ Len(events) = 1
    /\ 1 \in Calls("/public/v2/ticker_new")
    /\ reply = NotJson

\* C5 as stated: the GET calls, the ticker request, carry no signing header.
GetCallsAreUnsigned ==
    \A i \in Indices("exchange") :
        events[i].method = "GET" =>
            /\ ~HasKey(events[i].headers, "X-COINONE-PAYLOAD")
            /\ ~HasKey(events[i].headers, "X-COINONE-SIGNATURE")

\* C5, amended: the GET calls are the ticker requests, and they carry the
\* two signing headers like the POST calls; the payload signed for them holds
\* the nonce and nothing else (no access token).
GetCallsAreSignedToo ==
    \A i \in Indices("exchange") :
        /\ events[i].method = "GET" <=> i \in Calls("/public/v2/ticker_new")
        /\ events[i].method = "GET" =>
            /\ HasKey(events[i].headers, "X-COINONE-PAYLOAD")
            /\ HasKey(events[i].headers, "X-COINONE-SIGNATURE")
            /\ DOMAIN PayloadOf(events[i]) = {"nonce"}

TickerCallWitness ==
    /\ Len(events) >= 1
    /\ events[1].kind = "exchange"
    /\ events[1].method = "GET"
    /\ HasKey(events[1].headers, "X-COINONE-SIGNATURE")

NonceOf(encoded_json) == encoded_json[2][2].nonce
EarlierNonces == {NonceOf(encoded[i]) : i \in 1..Len(encoded)}

\* C6: every call of get_encoded_payload leaves in the mapping it was given
\* the nonce it encoded, a nonce no earlier call produced (also when the
\* mapping was signed before or came with a nonce), and changes no other key.
EveryCallFreshNonce ==
    [][Len(encoded') = Len(encoded) + 1 =>
        /\ NonceOf(Last(encoded')) \notin EarlierNonces
        /\ \E i \in 1..Len(heap) :
            /\ \A j \in 1..Len(heap) : j # i => heap'[j] = heap[j]
            /\ Last(encoded')[2][2] = heap'[i]
            /\ DOMAIN heap'[i] = DOMAIN heap[i] \cup {"nonce"}
            /\ \A k \in DOMAIN heap[i] \ {"nonce"} : heap'[i][k] = heap[i][k]
    ]_vars

SameMappingSignedTwice ==
    /\ Len(heap) = 1
    /\ Len(encoded) = 2
    /\ HasKey(heap[1], "order_id")
    /\ NonceOf(encoded[2]) = heap[1].nonce
    /\ NonceOf(encoded[1]) # NonceOf(encoded[2])

\* C7: the limit price of the order submission is 1.03 times the price of the
\* first ask level of the first ticker of the reply to the price fetch.
LimitPriceIsFirstAskTimes103 ==
    [][pc = "buy" =>
        LET P == Float(reply.body.tickers[1].best_asks[1].price)
            limit_price == PayloadOf(Last(events')).limit_price
        IN  /\ Last(events').url[2] = <<"/v2.1/order">>
            /\ limit_price.num * P.den * 100 = P.num * 103 * limit_price.den
    ]_vars

\* an order at 10.815 = 10.5 * 1.03: 10.5 is the first ask tried that is not
\* the lowest one
FirstAskNotLowestWitness ==
    \E i \in Calls("/v2.1/order") :
        /\ PayloadOf(events[i]).limit_price.num * 1000
                = 10815 * PayloadOf(events[i]).limit_price.den
        /\ i = 2

\* C8: the order submission is directly followed by the one settle delay of
\* one second; the order detail is asked for at most once, after the delay,
\* and once exactly in a run that reports a success, whatever the status of
\* the order; price fetch, submission, delay, detail come in this order.
SettleThenOneDetailQuery ==
    /\ \A i \in Calls("/v2.1/order") :
        /\ i = 2 /\ 1 \in Calls("/public/v2/ticker_new")
        /\ IF i < Len(events) THEN events[i + 1] = SleepEvent
           ELSE pc \in {"sleep", "raised"}
    /\ \A i \in Indices("sleep") :
        /\ events[i].seconds = 1
        /\ i = 3 /\ 2 \in Calls("/v2.1/order")
    /\ \A i \in Calls("/v2.1/order/detail") : i = 4 /\ 3 \in Indices("sleep")
    /\ \A i \in Webhooks :
        ContentOf(events[i]).template = "accepted" =>
            /\ i = Len(events)
            /\ Cardinality(Calls("/v2.1/order/detail")) = 1

PendingOrderReportedWitness ==
    /\ pc = "exit"
    /\ Calls("/v2.1/order/detail") = {4}
    /\ order_info.order.status = "LIVE"
    /\ ContentOf(Last(events)).template = "accepted"
    /\ ContentOf(Last(events)).order.status = "LIVE"

\* C9: every POST call carries the encoded payload and the signature; the
\* signature is the HMAC-SHA512 under the secret key of that very header
\* value, which is base64 of the JSON of a payload that has its nonce.
PrivateCallsAreSigned ==
    \A i \in Indices("exchange") :
        events[i].method = "POST" =>
            /\ HasKey(events[i].headers, "X-COINONE-PAYLOAD")
            /\ HasKey(events[i].headers, "X-COINONE-SIGNATURE")
            /\ events[i].headers["X-COINONE-SIGNATURE"]
                = HmacSha512Hex(SECRET_KEY, events[i].headers["X-COINONE-PAYLOAD"])
            /\ events[i].headers["X-COINONE-PAYLOAD"][1] = "b64"
            /\ events[i].headers["X-COINONE-PAYLOAD"][2][1] = "json"
            /\ HasKey(PayloadOf(events[i]), "nonce")
            /\ HasKey(PayloadOf(events[i]), "access_token")

SignedOrderWitness ==
    \E i \in Calls("/v2.1/order") :
        /\ events[i].method = "POST"
        /\ PayloadOf(events[i]).nonce = <<"uuid4", 3>>
        /\ PayloadOf(events[i]).user_order_id = <<"uuid4", 2>>

\* C10: a run submits at most one order, under an order id of its own, sends
\* at most one webhook message, and has sent exactly one when it ends without
\* an exception.
OneOrderOneMessage ==
    /\ Cardinality(Calls("/v2.1/order")) <= 1
    /\ \A i \in Calls("/v2.1/order"), j \in Indices("exchange") :
        PayloadOf(events[i]).user_order_id # PayloadOf(events[j]).nonce
    /\ Cardinality(Webhooks) <= 1
    /\ pc = "exit" => Cardinality(Webhooks) = 1 /\ exc = "none"
    /\ pc = "raised" => exc # "none"

OneOrderOneMessageWitness ==
    /\ pc = "exit"
    /\ Cardinality(Calls("/v2.1/order")) = 1
    /\ Cardinality(Webhooks) = 1
    /\ reply.kind = "http"
    /\ reply.status = 200

====
